---- MODULE Spec2Model ----
(***************************************************************************)
(* Model of main.py: the batch analysis of edge-list files.  Each file is  *)
(* read into an undirected graph (networkx.read_edgelist), its closeness,  *)
(* betweenness and clustering are computed, NumGraphs G(n,m) random graphs  *)
(* are drawn and measured, z-scores are taken against them, the top 5      *)
(* nodes per centrality are extracted and the record is written.  main     *)
(* submits one analyze_file per directory entry to a process pool and      *)
(* collects the futures as they complete.                                  *)
(*                                                                         *)
(* Floating-point values are modelled as exact rationals <<n, d>> in       *)
(* lowest terms (d > 0); the IEEE values numpy produces on a division by   *)
(* zero are <<0, 0>> (nan) and <<1, 0>> (an infinity).  A z-score         *)
(* num / sqrt(var) is kept as its sign and its square.  Rounding error of  *)
(* the float arithmetic is not modelled.                                   *)
(***************************************************************************)
EXTENDS Integers, Sequences, FiniteSets, TLC

VARIABLES
    folder,     \* file -> text of the file: a sequence of lines, each a sequence of tokens
    runs,       \* file -> the locals of its analyze_file call and its position
    outputs,    \* file -> the records written to its output file (<<>>: no file)
    collected,  \* the futures main has taken from as_completed
    logged,     \* the "Error processing file" messages main has printed
    mainpc,     \* main: "collecting" inside the as_completed loop, then "exited"
    workers,    \* the worker processes of the pool (os.cpu_count())
    items,      \* ranking: the (node, value) items of a centrality dict, in dict order
    ranked,     \* ranking: the top-5 list extracted from items (<<>> before)
    rankpc      \* ranking: "input", then "ranked"

vars == <<folder, runs, outputs, collected, logged, mainpc, workers, items, ranked, rankpc>>

(***************************************************************************)
(* Bounds of the model and constants of the program.                       *)
(***************************************************************************)
\* lines per file in the metrics specification
MaxLines == 3
\* lines per file in the single-file pipeline specification
PipeMaxLines == 2
\* num_graphs of generate_random_graphs; analyze_file passes 10
NumGraphs == 2
\* directory entries in the batch specification
NumFiles == 2
\* the slice [:5] of the two top-5 lists
TopK == 5

NodeIds == {"A", "B", "C", "D"}
PipeIds == {"A", "B", "C"}
RankIds == {"A", "B", "C", "D", "E", "F"}

(***************************************************************************)
(* Rational arithmetic.                                                    *)
(***************************************************************************)
RECURSIVE GCD(_, _)
GCD(a, b) == IF b = 0 THEN a ELSE GCD(b, a % b)

Abs(x) == IF x < 0 THEN -x ELSE x

Rat(n, d) ==
    LET g == GCD(Abs(n), Abs(d))
        s == IF d < 0 THEN -1 ELSE 1
    IN  <<(s * n) \div g, (s * d) \div g>>

Zero == <<0, 1>>
One == <<1, 1>>
NaN == <<0, 0>>
PosInf == <<1, 0>>

RAdd(a, b) == Rat(a[1] * b[2] + b[1] * a[2], a[2] * b[2])
RSub(a, b) == Rat(a[1] * b[2] - b[1] * a[2], a[2] * b[2])
RMul(a, b) == Rat(a[1] * b[1], a[2] * b[2])
RDiv(a, b) == Rat(a[1] * b[2], a[2] * b[1])
RLess(a, b) == a[1] * b[2] < b[1] * a[2]
IsFinite(a) == a[2] # 0

RECURSIVE SumSeq(_)
SumSeq(s) == IF s = <<>> THEN Zero ELSE RAdd(Head(s), SumSeq(Tail(s)))

RECURSIVE SumOver(_, _)
SumOver(S, f) ==
    IF S = {} THEN Zero
    ELSE LET x == CHOOSE y \in S : TRUE IN RAdd(f[x], SumOver(S \ {x}, f))

Range(s) == {s[i] : i \in DOMAIN s}
Min(a, b) == IF a < b THEN a ELSE b
SeqsUpTo(S, n) == UNION {[1..k -> S] : k \in 0..n}

RECURSIVE Flatten(_)
Flatten(ss) == IF ss = <<>> THEN <<>> ELSE Head(ss) \o Flatten(Tail(ss))

(***************************************************************************)
(* networkx.Graph: the nodes in insertion order and the undirected edges,  *)
(* an edge {u, v} being a self-loop when u = v.                            *)
(***************************************************************************)
EmptyGraph == [nodes |-> <<>>, edges |-> {}]
EmptyMap == [v \in {} |-> Zero]

add_node(G, u) ==
    IF u \in Range(G.nodes) THEN G ELSE [G EXCEPT !.nodes = Append(@, u)]

add_edge(G, u, v) ==
    LET H == add_node(add_node(G, u), v)
    IN  [H EXCEPT !.edges = @ \cup {{u, v}}]

Neighbors(G, v) == {w \in Range(G.nodes) : {v, w} \in G.edges}
NumNodes(G) == Len(G.nodes)
NumEdges(G) == Cardinality(G.edges)

(***************************************************************************)
(* read_graph_from_file: nx.read_edgelist with its defaults (comments '#', *)
(* whitespace delimiter, data=True).  A line with fewer than two tokens is *)
(* skipped; further tokens must be the literal of a dict, or the call      *)
(* raises TypeError.  "{}" is the one token of the model that is one.      *)
(***************************************************************************)
DictLiteral(d) == d = <<"{}">>

RECURSIVE parse_edgelist(_, _)
parse_edgelist(lines, G) ==
    IF lines = <<>> THEN [ok |-> TRUE, graph |-> G]
    ELSE LET s == Head(lines)
         IN  IF Len(s) < 2 THEN parse_edgelist(Tail(lines), G)
             ELSE IF Len(s) > 2 /\ ~DictLiteral(SubSeq(s, 3, Len(s)))
                  THEN [ok |-> FALSE, graph |-> EmptyGraph]
                  ELSE parse_edgelist(Tail(lines), add_edge(G, s[1], s[2]))

read_graph_from_file(text) == parse_edgelist(text, EmptyGraph)

(***************************************************************************)
(* calculate_metrics: nx.closeness_centrality (wf_improved=True),          *)
(* nx.betweenness_centrality (normalized=True, endpoints=False) and        *)
(* nx.clustering, each with the defaults main.py calls it with.            *)
(***************************************************************************)
\* single_source_shortest_path_length: breadth-first levels from the source
RECURSIVE BFS(_, _, _, _)
BFS(G, frontier, dist, d) ==
    IF frontier = {} THEN dist
    ELSE LET nxt == UNION {Neighbors(G, v) : v \in frontier} \ DOMAIN dist
             nd  == [w \in DOMAIN dist \cup nxt |->
                        IF w \in DOMAIN dist THEN dist[w] ELSE d + 1]
         IN  BFS(G, nxt, nd, d + 1)

ShortestPathLength(G, s) == BFS(G, {s}, [w \in {s} |-> 0], 0)

TotalDistance(sp) == SumOver(DOMAIN sp, [w \in DOMAIN sp |-> Rat(sp[w], 1)])[1]

\* a closeness without the Wasserman-Faust factor (r-1)/(n-1)
ClosenessOfUnscaled(G, v) ==
    LET sp    == ShortestPathLength(G, v)
        totsp == TotalDistance(sp)
    IN  IF totsp > 0 /\ NumNodes(G) > 1
        THEN Rat(Cardinality(DOMAIN sp) - 1, totsp)
        ELSE Zero

ClosenessOf(G, v) ==
    LET sp    == ShortestPathLength(G, v)
        totsp == TotalDistance(sp)
        len_G == NumNodes(G)
        r     == Cardinality(DOMAIN sp)
    IN  IF totsp > 0 /\ len_G > 1
        THEN RMul(Rat(r - 1, totsp), Rat(r - 1, len_G - 1))
        ELSE Zero

closeness_centrality(G) == [v \in Range(G.nodes) |-> ClosenessOf(G, v)]

\* _single_source_shortest_path_basic: the predecessors P[w] and the path counts sigma[w]
Preds(G, D, w) == {v \in Neighbors(G, w) \cap DOMAIN D : D[v] + 1 = D[w]}

RECURSIVE Sigma(_, _, _, _)
Sigma(G, D, s, w) ==
    IF w = s THEN 1
    ELSE LET P == Preds(G, D, w)
         IN  SumOver(P, [v \in P |-> Rat(Sigma(G, D, s, v), 1)])[1]

\* _accumulate_basic: delta[v] += sigma[v] * (1 + delta[w]) / sigma[w] for v in P[w]
RECURSIVE Delta(_, _, _, _)
Delta(G, D, s, v) ==
    LET W == {w \in DOMAIN D : v \in Preds(G, D, w)}
    IN  SumOver(W, [w \in W |->
            RMul(Rat(Sigma(G, D, s, v), Sigma(G, D, s, w)),
                 RAdd(One, Delta(G, D, s, w)))])

\* betweenness[w] += delta[w] for every source s # w
Accumulate(G, v) ==
    LET src == Range(G.nodes) \ {v}
    IN  SumOver(src, [s \in src |->
            LET D == ShortestPathLength(G, s)
            IN  IF v \in DOMAIN D THEN Delta(G, D, s, v) ELSE Zero])

\* the rescaling of normalized=False: every score halved
RescaleHalved(b, n) == RMul(b, Rat(1, 2))

\* _rescale with normalized=True, directed=False: 1/((n-1)(n-2)), none for n <= 2
Rescale(b, n) == IF n <= 2 THEN b ELSE RMul(b, Rat(1, (n - 1) * (n - 2)))

betweenness_centrality(G) ==
    [v \in Range(G.nodes) |-> Rescale(Accumulate(G, v), NumNodes(G))]

\* _triangles_and_degree_iter: self-loops are left out of the neighbourhoods
ClusteringOf(G, v) ==
    LET vs == Neighbors(G, v) \ {v}
        d  == Cardinality(vs)
        t  == SumOver(vs, [w \in vs |->
                 Rat(Cardinality(vs \cap (Neighbors(G, w) \ {w})), 1)])[1]
    IN  IF t = 0 THEN Zero ELSE Rat(t, d * (d - 1))

clustering(G) == [v \in Range(G.nodes) |-> ClusteringOf(G, v)]

\* list(d.values()): the values of a node dict in node order
Values(G, m) == [i \in 1..NumNodes(G) |-> m[G.nodes[i]]]

\* np.mean: nan (and a RuntimeWarning) on an empty list
NpMean(xs) == IF Len(xs) = 0 THEN NaN ELSE RDiv(SumSeq(xs), Rat(Len(xs), 1))

\* np.std squared: the population variance
NpVar(xs) ==
    LET mu == NpMean(xs)
    IN  NpMean([i \in 1..Len(xs) |-> RMul(RSub(xs[i], mu), RSub(xs[i], mu))])

\* nx.average_clustering: sum(c) / len(c); raises ZeroDivisionError on no nodes
average_clustering(G) == NpMean(Values(G, clustering(G)))

(***************************************************************************)
(* calculate_z_scores: (observed - np.mean(d)) / np.std(d) in float64      *)
(* arithmetic, where a zero divisor gives nan or an infinity and a         *)
(* warning, never an exception.  np.mean and np.std of a list of lists are *)
(* taken over all its elements.  The value is sgn * sqrt(sq).              *)
(***************************************************************************)
Sign(x) == IF x > 0 THEN 1 ELSE IF x < 0 THEN -1 ELSE 0

ZScore(observed, xs) ==
    LET num == RSub(observed, NpMean(xs))
        var == NpVar(xs)
    IN  IF var = Zero
        THEN [sgn |-> Sign(num[1]),
              sq  |-> IF num[1] > 0 THEN PosInf
                      ELSE IF num[1] < 0 THEN PosInf ELSE NaN]
        ELSE [sgn |-> Sign(num[1]), sq |-> RDiv(RMul(num, num), var)]

NoZ == [sgn |-> 0, sq |-> Zero]
ZFinite(z) == IsFinite(z.sq)

calculate_z_scores(G, random_graphs) ==
    [closeness   |-> ZScore(NpMean(Values(G, closeness_centrality(G))),
                            Flatten(random_graphs.closeness)),
     betweenness |-> ZScore(NpMean(Values(G, betweenness_centrality(G))),
                            Flatten(random_graphs.betweenness)),
     clustering  |-> ZScore(average_clustering(G), random_graphs.clustering)]

(***************************************************************************)
(* nx.gnm_random_graph(n, m) with the module-level random source: nodes    *)
(* 0..n-1; no edge for n = 1; the complete graph for m >= n(n-1)/2; else m *)
(* distinct pairs u # v drawn until m edges are in.  The set is every      *)
(* graph the call can return.                                              *)
(***************************************************************************)
RangeNodes(n) == [i \in 1..n |-> i - 1]
AllPairs(n) == {{u, v} : u, v \in 0..(n - 1)} \ {{u} : u \in 0..(n - 1)}

gnm_random_graph(n, m) ==
    IF n = 1 THEN {[nodes |-> RangeNodes(n), edges |-> {}]}
    ELSE IF 2 * m >= n * (n - 1)
         THEN {[nodes |-> RangeNodes(n), edges |-> AllPairs(n)]}
         ELSE {[nodes |-> RangeNodes(n), edges |-> E] :
                  E \in {T \in SUBSET AllPairs(n) : Cardinality(T) = m}}

(***************************************************************************)
(* sorted(d.items(), key=lambda item: item[1], reverse=True)[:5]: a stable *)
(* sort, so items of equal value keep the order of the dict.               *)
(***************************************************************************)
Items(G, m) == [i \in 1..NumNodes(G) |-> <<G.nodes[i], m[G.nodes[i]]>>]

InsertDesc(sorted, it) ==
    LET p == Cardinality({i \in DOMAIN sorted : ~RLess(sorted[i][2], it[2])})
    IN  SubSeq(sorted, 1, p) \o <<it>> \o SubSeq(sorted, p + 1, Len(sorted))

\* descending, items of equal value in reverse dict order: sorted(...)[::-1]
InsertDescReversed(sorted, it) ==
    LET p == Cardinality({i \in DOMAIN sorted : RLess(it[2], sorted[i][2])})
    IN  SubSeq(sorted, 1, p) \o <<it>> \o SubSeq(sorted, p + 1, Len(sorted))

RECURSIVE SortedReversedFrom(_, _)
SortedReversedFrom(its, acc) ==
    IF its = <<>> THEN acc
    ELSE SortedReversedFrom(Tail(its), InsertDescReversed(acc, Head(its)))

sorted_desc_reversed(its) == SortedReversedFrom(its, <<>>)

RECURSIVE SortedFrom(_, _)
SortedFrom(its, acc) ==
    IF its = <<>> THEN acc ELSE SortedFrom(Tail(its), InsertDesc(acc, Head(its)))

sorted_desc(its) == SortedFrom(its, <<>>)

top_5(its) == SubSeq(sorted_desc(its), 1, Min(TopK, Len(its)))

(***************************************************************************)
(* The inputs.                                                             *)
(***************************************************************************)
\* lines that are not two identifiers: blank, one token, three tokens
OddLines == {<<>>, <<"A">>, <<"A", "B", "C">>, <<"A", "B", "{}">>}

\* the order of the node ids
IdOrder == <<"A", "B", "C", "D", "E", "F">>
IdIndex(id) == CHOOSE i \in DOMAIN IdOrder : IdOrder[i] = id

\* each undirected pair written once: the other orientation gives the same edges
\* and differs in the order of the nodes alone
MetricsLines == {l \in NodeIds \X NodeIds : IdIndex(l[1]) <= IdIndex(l[2])}
MetricsTexts == SeqsUpTo(MetricsLines, MaxLines)
PipeTexts == SeqsUpTo((PipeIds \X PipeIds) \cup OddLines, PipeMaxLines)
BatchTexts ==
    { <<>>,
      << <<"A", "B", "C">> >>,
      << <<"A", "B">> >>,
      << <<"A", "A">> >> }
SerialTexts ==
    { << <<"A", "B">>, <<"C", "D">> >>,
      << <<"A", "B">>, <<"B", "C">> >> }

InjectiveSeqs(S) ==
    {q \in SeqsUpTo(S, Cardinality(S)) : \A i, j \in DOMAIN q : q[i] = q[j] => i = j}
\* the dict whose keys, in order, are q and whose values are val
DictItems(q, val) == [i \in DOMAIN q |-> <<q[i], val[i]>>]

(***************************************************************************)
(* analyze_file: the locals of one call and the stage it is at.  stages    *)
(* lists the stages entered so far.                                        *)
(***************************************************************************)
NoDistributions == [closeness |-> <<>>, betweenness |-> <<>>, clustering |-> <<>>]

NewRun ==
    [pc |-> "submitted", graph |-> EmptyGraph,
     closeness |-> EmptyMap, betweenness |-> EmptyMap, clustering |-> EmptyMap,
     avg_closeness |-> Zero, avg_betweenness |-> Zero, global_clustering |-> Zero,
     samples |-> <<>>, random_graphs |-> NoDistributions,
     z |-> [closeness |-> NoZ, betweenness |-> NoZ, clustering |-> NoZ],
     top_5_closeness |-> <<>>, top_5_betweenness |-> <<>>,
     error |-> "", stages |-> <<>>]

\* the call is left: its locals are gone, with a value or an exception in the future
Leave(r, pc, e) == [NewRun EXCEPT !.pc = pc, !.error = e, !.stages = r.stages]

Raise(r, e) == Leave(r, "failed", e)

\* a reader that takes the lines before a malformed one as the graph
ReadGraphLenient(r, text) ==
    LET g == read_graph_from_file(text)
    IN  [r EXCEPT !.stages = Append(@, "load"), !.pc = "metrics", !.graph = g.graph]

\* line 153: read_graph_from_file
ReadGraphStep(r, text) ==
    LET g == read_graph_from_file(text)
        s == [r EXCEPT !.stages = Append(@, "load")]
    IN  IF g.ok THEN [s EXCEPT !.pc = "metrics", !.graph = g.graph]
        ELSE Raise(s, "TypeError")

Completed(f) == runs[f].pc \in {"done", "failed"}
Running(f) == runs[f].pc \notin {"submitted", "done", "failed"}

\* a worker takes the next call of the queue, in the order of submission
ReadGraph(f) ==
    /\ runs[f].pc = "submitted"
    /\ \A g \in DOMAIN folder : g < f => runs[g].pc # "submitted"
    /\ Cardinality({g \in DOMAIN folder : Running(g)}) < workers
    /\ runs' = [runs EXCEPT ![f] = ReadGraphStep(@, folder[f])]
    /\ UNCHANGED <<folder, outputs, collected, logged, mainpc, workers, items, ranked, rankpc>>

\* lines 154-159: calculate_metrics and the three averages
CalculateMetrics(f) ==
    /\ runs[f].pc = "metrics"
    /\ LET G  == runs[f].graph
           cc == closeness_centrality(G)
           bc == betweenness_centrality(G)
           cl == clustering(G)
       IN  runs' = [runs EXCEPT ![f] =
                [@ EXCEPT !.pc = "nullmodel", !.stages = Append(@, "metrics"),
                          !.closeness = cc, !.betweenness = bc, !.clustering = cl,
                          !.avg_closeness = NpMean(Values(G, cc)),
                          !.avg_betweenness = NpMean(Values(G, bc)),
                          !.global_clustering = NpMean(Values(G, cl))]]
    /\ UNCHANGED <<folder, outputs, collected, logged, mainpc, workers, items, ranked, rankpc>>

\* lines 97-102: one iteration of the loop of generate_random_graphs (the first
\* with lines 94-95, the last with the return)
GenerateRandomGraph(f) ==
    /\ runs[f].pc = "nullmodel"
    /\ Len(runs[f].samples) < NumGraphs
    /\ \E rg \in gnm_random_graph(NumNodes(runs[f].graph), NumEdges(runs[f].graph)) :
          LET r  == runs[f]
              s  == [r EXCEPT !.stages =
                        IF r.samples = <<>> THEN Append(@, "nullmodel") ELSE @]
              d  == r.random_graphs
              nd == [closeness   |-> Append(d.closeness,
                                        Values(rg, closeness_centrality(rg))),
                     betweenness |-> Append(d.betweenness,
                                        Values(rg, betweenness_centrality(rg))),
                     clustering  |-> Append(d.clustering, average_clustering(rg))]
          IN  runs' = [runs EXCEPT ![f] =
                  IF NumNodes(rg) = 0 THEN Raise(s, "ZeroDivisionError")
                  ELSE [s EXCEPT !.samples = Append(@, rg),
                                 !.random_graphs = nd,
                                 !.pc = IF Len(r.samples) + 1 = NumGraphs
                                        THEN "zscores" ELSE "nullmodel"]]
    /\ UNCHANGED <<folder, outputs, collected, logged, mainpc, workers, items, ranked, rankpc>>

\* line 164: calculate_z_scores
CalculateZScores(f) ==
    /\ runs[f].pc = "zscores"
    /\ runs' = [runs EXCEPT ![f] =
            [@ EXCEPT !.pc = "rank", !.stages = Append(@, "zscores"),
                      !.z = calculate_z_scores(runs[f].graph, runs[f].random_graphs)]]
    /\ UNCHANGED <<folder, outputs, collected, logged, mainpc, workers, items, ranked, rankpc>>

\* lines 167-168: the two top-5 lists
Top5(f) ==
    /\ runs[f].pc = "rank"
    /\ runs' = [runs EXCEPT ![f] =
            [@ EXCEPT !.pc = "save", !.stages = Append(@, "rank"),
                      !.top_5_closeness =
                          top_5(Items(runs[f].graph, runs[f].closeness)),
                      !.top_5_betweenness =
                          top_5(Items(runs[f].graph, runs[f].betweenness))]]
    /\ UNCHANGED <<folder, outputs, collected, logged, mainpc, workers, items, ranked, rankpc>>

\* lines 170-180: the result dict
Result(f, r) ==
    [file |-> f,
     avg_closeness |-> r.avg_closeness, avg_betweenness |-> r.avg_betweenness,
     global_clustering |-> r.global_clustering,
     z_closeness |-> r.z.closeness, z_betweenness |-> r.z.betweenness,
     z_clustering |-> r.z.clustering,
     top_5_closeness |-> r.top_5_closeness,
     top_5_betweenness |-> r.top_5_betweenness]

\* line 182: save_results_to_file
SaveResults(f) ==
    /\ runs[f].pc = "save"
    /\ outputs' = [outputs EXCEPT ![f] = Append(@, Result(f, runs[f]))]
    /\ runs' = [runs EXCEPT ![f] =
            Leave([@ EXCEPT !.stages = Append(@, "save")], "done", "")]
    /\ UNCHANGED <<folder, collected, logged, mainpc, workers, items, ranked, rankpc>>

(***************************************************************************)
(* main: the loop over as_completed(futures).  future.result() re-raises   *)
(* the exception of a failed call; the except clause prints it.            *)
(***************************************************************************)
\* a loop without the try/except: the exception leaves main
CollectNoCatch(f) ==
    /\ mainpc = "collecting"
    /\ f \notin collected
    /\ Completed(f)
    /\ collected' = collected \cup {f}
    /\ mainpc' = IF runs[f].pc = "failed" THEN "exited" ELSE mainpc
    /\ UNCHANGED <<folder, runs, outputs, logged, workers, items, ranked, rankpc>>

Collect(f) ==
    /\ mainpc = "collecting"
    /\ f \notin collected
    /\ Completed(f)
    /\ collected' = collected \cup {f}
    /\ logged' = IF runs[f].pc = "failed" THEN Append(logged, <<f, runs[f].error>>)
                 ELSE logged
    /\ UNCHANGED <<folder, runs, outputs, mainpc, workers, items, ranked, rankpc>>

\* the loop ends when every future has been yielded; the with block is left
MainExit ==
    /\ mainpc = "collecting"
    /\ collected = DOMAIN folder
    /\ mainpc' = "exited"
    /\ UNCHANGED <<folder, runs, outputs, collected, logged, workers, items, ranked, rankpc>>

\* the ranking alone, on the items of a centrality dict
Rank ==
    /\ rankpc = "input"
    /\ ranked' = top_5(items)
    /\ rankpc' = "ranked"
    /\ UNCHANGED <<folder, runs, outputs, collected, logged, mainpc, workers, items>>

(***************************************************************************)
(* Specifications.                                                         *)
(***************************************************************************)
Submitted(texts, n, w) ==
    /\ folder \in [1..n -> texts]
    /\ workers \in w
    /\ runs = [f \in 1..n |-> NewRun]
    /\ outputs = [f \in 1..n |-> <<>>]
    /\ collected = {}
    /\ logged = <<>>
    /\ mainpc = "collecting"
    /\ items = <<>>
    /\ ranked = <<>>
    /\ rankpc = "ranked"

\* one file in the folder
Init == Submitted(PipeTexts, 1, {1})

Next ==
    \/ \E f \in DOMAIN folder : ReadGraph(f)
    \/ \E f \in DOMAIN folder : CalculateMetrics(f)
    \/ \E f \in DOMAIN folder : GenerateRandomGraph(f)
    \/ \E f \in DOMAIN folder : CalculateZScores(f)
    \/ \E f \in DOMAIN folder : Top5(f)
    \/ \E f \in DOMAIN folder : SaveResults(f)
    \/ \E f \in DOMAIN folder : Collect(f)
    \/ MainExit

Spec == Init /\ [][Next]_vars

\* NumFiles files in the folder, analysed concurrently by the pool
InitMain == Submitted(BatchTexts, NumFiles, 1..NumFiles)

SpecMain == InitMain /\ [][Next]_vars

\* the same text in two files, analysed one after the other by a pool of one worker
InitSerial ==
    /\ Submitted(SerialTexts, 2, {1})
    /\ folder[1] = folder[2]

SpecSerial == InitSerial /\ [][Next]_vars

\* reading and calculate_metrics on the larger graphs
InitMetrics == Submitted(MetricsTexts, 1, {1})

NextMetrics ==
    \/ \E f \in DOMAIN folder : ReadGraph(f)
    \/ \E f \in DOMAIN folder : CalculateMetrics(f)

SpecMetrics == InitMetrics /\ [][NextMetrics]_vars

\* the ranking on drawn centrality items
InitRank ==
    /\ folder = <<>>
    /\ runs = <<>>
    /\ outputs = <<>>
    /\ collected = {}
    /\ logged = <<>>
    /\ mainpc = "exited"
    /\ workers = 1
    /\ \E q \in InjectiveSeqs(RankIds) :
          \E val \in [DOMAIN q -> {Zero, One}] : items = DictItems(q, val)
    /\ ranked = <<>>
    /\ rankpc = "input"

NextRank == Rank

SpecRank == InitRank /\ [][NextRank]_vars

(***************************************************************************)
(* Properties.                                                             *)
(***************************************************************************)
Files == DOMAIN folder

\* a non-empty line that is not exactly two tokens
BadLine(s) == Len(s) # 0 /\ Len(s) # 2
HasBadLine(text) == \E i \in DOMAIN text : BadLine(text[i])

\* the inputs read_edgelist raises on, and those whose graph has no node
RaisesAtLoad(text) ==
    \E i \in DOMAIN text : Len(text[i]) > 2 /\ text[i][3] # "{}"
NoEdgeLine(text) == \A i \in DOMAIN text : Len(text[i]) < 2
Fails(text) == RaisesAtLoad(text) \/ NoEdgeLine(text)

StageOrder == <<"load", "metrics", "nullmodel", "zscores", "rank", "save">>
IsPrefix(a, b) == Len(a) <= Len(b) /\ a = SubSeq(b, 1, Len(a))

\* C1: failure isolation in main.  When main has left the loop every future
\* has been collected; each file whose analysis raises (at load or in the
\* null model) has failed, left no output and had its error printed by main;
\* every other file is done with its result written once.  Inside the loop
\* a call is running or can start, a future can be collected or the loop can
\* end: no failure stops the collection.
C1_FailureIsolation ==
    /\ mainpc = "exited" =>
          \A f \in Files :
             /\ f \in collected
             /\ IF Fails(folder[f])
                THEN /\ runs[f].pc = "failed"
                     /\ outputs[f] = <<>>
                     /\ \E i \in DOMAIN logged : logged[i][1] = f
                ELSE /\ runs[f].pc = "done"
                     /\ Len(outputs[f]) = 1
    /\ \A f \in collected :
          runs[f].pc = "failed" => \E i \in DOMAIN logged : logged[i] = <<f, runs[f].error>>
    /\ mainpc = "collecting" =>
          \/ \E f \in Files : Running(f)
          \/ \E f \in Files : ENABLED ReadGraph(f)
          \/ \E f \in Files : ENABLED Collect(f)
          \/ ENABLED MainExit

\* main has exited after one file failed and another was written
C1_Witness ==
    /\ mainpc = "exited"
    /\ \E f, g \in Files :
          /\ runs[f].pc = "failed"
          /\ Len(logged) >= 1
          /\ runs[g].pc = "done"
          /\ Len(outputs[g]) = 1

\* C2 (as claimed): a null-model distribution of standard deviation zero makes
\* the z-score computation fail; no nan and no infinity is among the z-scores
\* the ranking stage receives or the output file holds.
C2_DegenerateFails ==
    \A f \in Files :
       /\ runs[f].pc \in {"rank", "save"} =>
             /\ ZFinite(runs[f].z.closeness)
             /\ ZFinite(runs[f].z.betweenness)
             /\ ZFinite(runs[f].z.clustering)
       /\ \A i \in DOMAIN outputs[f] :
             /\ ZFinite(outputs[f][i].z_closeness)
             /\ ZFinite(outputs[f][i].z_betweenness)
             /\ ZFinite(outputs[f][i].z_clustering)

\* C3 (as claimed): every random graph has the node count n and the edge count
\* m of the observed graph, without self-loops; when m > n(n-1)/2 the null
\* model fails, so no sample exists and no later stage is reached.
C3_ExactEdgeCount ==
    \A f \in Files :
       LET r == runs[f]
           g == read_graph_from_file(folder[f])
           n == NumNodes(g.graph)
           m == NumEdges(g.graph)
       IN  /\ \A i \in DOMAIN r.samples :
                /\ NumNodes(r.samples[i]) = n
                /\ NumEdges(r.samples[i]) = m
                /\ \A e \in r.samples[i].edges : Cardinality(e) = 2
           /\ (g.ok /\ 2 * m > n * (n - 1)) =>
                /\ r.samples = <<>>
                /\ r.pc \in {"submitted", "metrics", "nullmodel", "failed"}

\* the mean of a centrality over the nodes of one random graph
SampleMeans(samples, centrality(_)) ==
    [i \in DOMAIN samples |-> NpMean(Values(samples[i], centrality(samples[i])))]

\* C4 (as claimed): each distribution holds one scalar per sample, the mean
\* closeness, the mean betweenness and the global clustering of that sample,
\* and each z-score is taken against those per-sample values.
C4_PerSampleDistributions ==
    \A f \in Files :
       LET r  == runs[f]
           mc == SampleMeans(r.samples, closeness_centrality)
           mb == SampleMeans(r.samples, betweenness_centrality)
       IN  /\ Flatten(r.random_graphs.closeness) = mc
           /\ Flatten(r.random_graphs.betweenness) = mb
           /\ r.random_graphs.clustering =
                 [i \in DOMAIN r.samples |-> average_clustering(r.samples[i])]
           /\ r.pc \in {"rank", "save"} =>
                 /\ r.z.closeness = ZScore(r.avg_closeness, mc)
                 /\ r.z.betweenness = ZScore(r.avg_betweenness, mb)

\* the place of an item in the dict
PosIn(its, it) == CHOOSE i \in DOMAIN its : its[i] = it

\* top is the first min(TopK, n) items of its in the strict order Before
IsTopK(top, its, Before(_, _)) ==
    /\ Len(top) = Min(TopK, Len(its))
    /\ \A i \in DOMAIN top : \E j \in DOMAIN its : top[i] = its[j]
    /\ \A i, j \in DOMAIN top : i < j => Before(top[i], top[j])
    /\ \A j \in DOMAIN its :
          its[j] \notin Range(top) => \A i \in DOMAIN top : Before(top[i], its[j])

\* C5 (as claimed): the top-5 list is the first min(5, n) items by value
\* descending, items of equal value in ascending order of node id.
C5_TiesByNodeId ==
    LET Before(a, b) ==
            \/ RLess(b[2], a[2])
            \/ a[2] = b[2] /\ IdIndex(a[1]) < IdIndex(b[1])
    IN  rankpc = "ranked" => IsTopK(ranked, items, Before)

\* C5 (amended): the top-5 list is the first min(5, n) items by value
\* descending, items of equal value in the order of the dict, which is the
\* order in which the nodes first appear in the edge list.
C5_TiesByDictOrder ==
    LET Before(a, b) ==
            \/ RLess(b[2], a[2])
            \/ a[2] = b[2] /\ PosIn(items, a) < PosIn(items, b)
    IN  rankpc = "ranked" => IsTopK(ranked, items, Before)

\* more than five items were ranked, and two of equal value are listed against
\* the order of their ids
C5_Witness ==
    /\ rankpc = "ranked"
    /\ Len(items) > TopK
    /\ \E i, j \in DOMAIN ranked :
          /\ i < j
          /\ ranked[i][2] = ranked[j][2]
          /\ IdIndex(ranked[j][1]) < IdIndex(ranked[i][1])

\* the number of shortest paths from s to t, and of those through v
PathsBetween(G, s, t) == Sigma(G, ShortestPathLength(G, s), s, t)

PairDependency(G, s, t, v) ==
    LET Ds == ShortestPathLength(G, s)
        Dv == ShortestPathLength(G, v)
    IN  IF t \in DOMAIN Ds /\ v \in DOMAIN Ds /\ t \in DOMAIN Dv
           /\ Ds[v] + Dv[t] = Ds[t]
        THEN Rat(PathsBetween(G, s, v) * PathsBetween(G, v, t), PathsBetween(G, s, t))
        ELSE Zero

\* the sum over all sources s of the dependency of s on v
DependencySum(G, v) ==
    LET others == Range(G.nodes) \ {v}
        pairs  == {p \in others \X others : p[1] # p[2]}
    IN  SumOver(pairs, [p \in pairs |-> PairDependency(G, p[1], p[2], v)])

IsStar(G, h) ==
    /\ NumNodes(G) >= 3
    /\ G.edges = {{h, x} : x \in Range(G.nodes) \ {h}}

\* C6 (as claimed): betweenness is the dependency sum halved and not rescaled;
\* the hub of a star of n nodes (the path A-B, B-C for n = 3) scores
\* (n-1)(n-2)/4 and its leaves 0; fewer than 3 nodes give all zeros.
C6_HalvedBetweenness ==
    \A f \in Files :
       runs[f].pc = "nullmodel" =>
          LET G == runs[f].graph
              n == NumNodes(G)
              b == runs[f].betweenness
          IN  /\ \A v \in Range(G.nodes) : b[v] = RMul(DependencySum(G, v), Rat(1, 2))
              /\ \A h \in Range(G.nodes) :
                    IsStar(G, h) =>
                       /\ b[h] = Rat((n - 1) * (n - 2), 4)
                       /\ \A x \in Range(G.nodes) \ {h} : b[x] = Zero
              /\ n < 3 => \A v \in Range(G.nodes) : b[v] = Zero

\* C6 (amended): betweenness is the dependency sum divided by (n-1)(n-2) when
\* the graph has n >= 3 nodes; the hub of a star (the middle of the path A-B,
\* B-C) scores 1 and its leaves 0; fewer than 3 nodes give all zeros.
C6_NormalizedBetweenness ==
    \A f \in Files :
       runs[f].pc = "nullmodel" =>
          LET G == runs[f].graph
              n == NumNodes(G)
              b == runs[f].betweenness
          IN  /\ DOMAIN b = Range(G.nodes)
              /\ n >= 3 =>
                    \A v \in Range(G.nodes) :
                       b[v] = RMul(DependencySum(G, v), Rat(1, (n - 1) * (n - 2)))
              /\ \A h \in Range(G.nodes) :
                    IsStar(G, h) =>
                       /\ b[h] = One
                       /\ \A x \in Range(G.nodes) \ {h} : b[x] = Zero
              /\ n < 3 => \A v \in Range(G.nodes) : b[v] = Zero

\* the betweenness of a star of four nodes has been computed
C6_Witness ==
    \E f \in Files :
       /\ runs[f].pc = "nullmodel"
       /\ NumNodes(runs[f].graph) = 4
       /\ \E h \in Range(runs[f].graph.nodes) :
             IsStar(runs[f].graph, h) /\ runs[f].betweenness[h] = One

\* the nodes within k steps of v
RECURSIVE Ball(_, _, _)
Ball(G, v, k) ==
    IF k = 0 THEN {v}
    ELSE LET B == Ball(G, v, k - 1) IN B \cup UNION {Neighbors(G, w) : w \in B}

Reachable(G, v) == Ball(G, v, NumNodes(G))
Distance(G, v, w) == CHOOSE k \in 0..NumNodes(G) :
                        /\ w \in Ball(G, v, k)
                        /\ k > 0 => w \notin Ball(G, v, k - 1)
DistanceSum(G, v) ==
    LET R == Reachable(G, v)
    IN  SumOver(R, [w \in R |-> Rat(Distance(G, v, w), 1)])

\* C7 (as claimed): closeness(v) = (r-1) / (sum of the distances from v), r the
\* number of nodes reachable from v, itself included, and 0 when r = 1, whatever
\* the number of nodes outside the component of v.
C7_ComponentCloseness ==
    \A f \in Files :
       runs[f].pc = "nullmodel" =>
          LET G == runs[f].graph
          IN  \A v \in Range(G.nodes) :
                 LET r == Cardinality(Reachable(G, v))
                 IN  runs[f].closeness[v] =
                        IF r = 1 THEN Zero
                        ELSE RDiv(Rat(r - 1, 1), DistanceSum(G, v))

\* C7 (amended): closeness(v) = ((r-1) / sum of the distances) * ((r-1)/(n-1)),
\* n the number of nodes of the graph, and 0 when r = 1: the value falls with
\* the number of nodes outside the component of v.
C7_ScaledCloseness ==
    \A f \in Files :
       runs[f].pc = "nullmodel" =>
          LET G == runs[f].graph
              n == NumNodes(G)
          IN  /\ DOMAIN runs[f].closeness = Range(G.nodes)
              /\ \A v \in Range(G.nodes) :
                    LET r == Cardinality(Reachable(G, v))
                    IN  runs[f].closeness[v] =
                           IF r = 1 THEN Zero
                           ELSE RMul(RDiv(Rat(r - 1, 1), DistanceSum(G, v)),
                                     Rat(r - 1, n - 1))

\* closeness has been computed for a node that reaches some but not all nodes
C7_Witness ==
    \E f \in Files :
       /\ runs[f].pc = "nullmodel"
       /\ \E v \in Range(runs[f].graph.nodes) :
             LET r == Cardinality(Reachable(runs[f].graph, v))
             IN  /\ 1 < r
                 /\ r < NumNodes(runs[f].graph)
                 /\ runs[f].closeness[v] # Zero

\* C8 (as claimed): two analyses of the same text write the same three z-scores.
C8_Reproducible ==
    \A f, g \in Files :
       folder[f] = folder[g] =>
          \A i \in DOMAIN outputs[f] :
             \A j \in DOMAIN outputs[g] :
                /\ outputs[f][i].z_closeness = outputs[g][j].z_closeness
                /\ outputs[f][i].z_betweenness = outputs[g][j].z_betweenness
                /\ outputs[f][i].z_clustering = outputs[g][j].z_clustering

\* C9 (as claimed): a text with a non-empty line that is not two identifiers
\* fails at load: once read, the run has failed in the load stage, and no
\* graph and no output comes of it.
C9_MalformedLineFails ==
    \A f \in Files :
       (HasBadLine(folder[f]) /\ runs[f].pc # "submitted") =>
          /\ runs[f].pc = "failed"
          /\ runs[f].stages = <<"load">>
          /\ outputs[f] = <<>>

\* C10: the stages of a run are entered in the order load, metrics, null
\* model, z-scores, ranking, save, each position of the run having entered
\* exactly the stages before it; an output exists only for a run that entered
\* all six and is done, and then exactly one record; a failed run has no
\* output and has entered no stage after the one that raised: load for a
\* text read_edgelist rejects, the null model for a graph without nodes.
C10_StageOrder ==
    \A f \in Files :
       LET r == runs[f]
       IN  /\ IsPrefix(r.stages, StageOrder)
           /\ r.pc = "submitted" => r.stages = <<>>
           /\ r.pc = "metrics" => r.stages = SubSeq(StageOrder, 1, 1)
           /\ r.pc = "nullmodel" => Len(r.stages) \in {2, 3}
           /\ r.pc = "zscores" => r.stages = SubSeq(StageOrder, 1, 3)
           /\ r.pc = "rank" => r.stages = SubSeq(StageOrder, 1, 4)
           /\ r.pc = "save" => r.stages = SubSeq(StageOrder, 1, 5)
           /\ r.pc = "done" <=> r.stages = StageOrder
           /\ Len(outputs[f]) = (IF r.pc = "done" THEN 1 ELSE 0)
           /\ RaisesAtLoad(folder[f]) => Len(r.stages) <= 1
           /\ r.pc = "failed" =>
                 r.stages = IF RaisesAtLoad(folder[f]) THEN SubSeq(StageOrder, 1, 1)
                            ELSE SubSeq(StageOrder, 1, 3)

\* main has exited after a run failed in the null model, with no output for it
C10_Witness ==
    \E f \in Files :
       /\ mainpc = "exited"
       /\ runs[f].pc = "failed"
       /\ runs[f].stages = SubSeq(StageOrder, 1, 3)
       /\ outputs[f] = <<>>
====
